---- MODULE Spec2Model ----
(***************************************************************************)
(* AbstractVariationalDriver (netket/abstract_variational_driver.py).      *)
(*                                                                         *)
(* The driver is modelled as a single-threaded program.  A client sitting  *)
(* at top level (pc = "idle") calls reset, update_parameters, estimate,    *)
(* advance, iter or run.  The generator returned by iter is a state        *)
(* machine with one position per statement of its body; its consumer is    *)
(* advance's for loop, run's for loop, or the client itself.               *)
(* The external hooks (optimizer, forward/backward pass, estimator,        *)
(* logger sinks, progress bar) are deterministic functions of the driver   *)
(* state; the forward/backward pass, the optimizer and the sinks may also  *)
(* raise.  A finished call rests at pc = "done" with what was observed of  *)
(* it, until the client goes on (ClientContinues).                         *)
(***************************************************************************)
EXTENDS Integers, Sequences, FiniteSets

\* ---------------------------------------------------------------- bounds
MaxSteps   == 4      \* largest n_steps / n_iter the client passes
MaxStep    == 2      \* largest step / step_size the client passes
MaxStart   == 2      \* a new iterating call starts only while step_count <= MaxStart
NumParams  == 3      \* the parameter container takes the values 0..NumParams-1
MaxLoggers == 2      \* longest collection of logger sinks passed as out

\* ------------------------------------------------------------- value sets
Params    == 0 .. (NumParams - 1)
Grads     == 0 .. 1
None      == "None"
Kinds     == {"joint", "split", "none"}
ObsNames  == {"A", "B"}
Operators == {"X", "Z"}
NoStats   == <<>>
JsonSink  == 0                       \* the sink run constructs from a path
UserSinks == 1 .. MaxLoggers         \* the sinks the client owns
Sinks     == {JsonSink} \cup UserSinks

VARIABLES
    \* fields of the driver object
    mynode,         \* self._mynode
    kind,           \* the override strategy of the concrete subclass
    step_count,     \* self._step_count
    parameters,     \* self._machine.parameters
    loss_stats,     \* self._loss_stats
    registry,       \* self._obs, the deprecated registry of observables
    \* control state
    pc,             \* position of the program
    op,             \* the top-level operation in progress, or the last one made
    status,         \* "running", "ok", "raised", "cancelled"
    err,            \* kind of the exception that ended the operation
    after_reset,    \* TRUE when the call before this one was reset
    prev,           \* <<k, count, parameters>> of the advance(k) this one follows
    \* frame of the generator iter(n_steps, step)
    n_steps,
    step,
    gen_b,          \* value of the outer range(0, n_steps, step)
    gen_i,          \* value of the inner range(0, step)
    dp,             \* local dp of iter / argument dp of update_parameters
    yielded,        \* the value the consumer received at the last yield
    \* frame of run
    obs,            \* the resolved observable collection
    loggers,        \* the resolved logger set, a sequence of sinks
    log_data,       \* the dictionary handed to the sinks
    log_idx,        \* position of the for loops over loggers
    pbar_disable,   \* tqdm(disable=...)
    pbar_n,         \* what the progress bar shows
    old_step_value,
    warned,         \* deprecation notices emitted by the call
    jsonLogs,       \* the JsonLog objects the call constructed, by their arguments
    raw_args,       \* the first two positional arguments of run, as passed
    obs_arg,        \* the obs argument of run, as passed
    cadence,        \* save_params_every and write_every, as passed
    pbar_sum,       \* sum of the deltas handed to pbar.update
    \* observation of the hooks
    start_count,    \* step_count when the operation was called
    start_params,   \* parameters when the operation was called
    batch_count,    \* step_count when the outer loop entered the current batch
    nYields,        \* yields of the current generator
    fbCalls,        \* _forward_and_backward calls of the operation
    optCalls,       \* optimizer.update calls of the operation
    optArgs,        \* arguments of the last optimizer.update call
    optResult,      \* what the last optimizer.update call returned
    estCalls,       \* _estimate_stats calls of the operation
    extraCalls,     \* _log_additional_data calls of the operation
    extraArgs,      \* arguments of the last _log_additional_data call
    sinkTrace,      \* logger(...) calls of the current report: <<sink, step>>
    logCalls,       \* logger(...) calls of the run, per sink
    flushTrace      \* logger.flush(...) calls of the run

driver  == <<mynode, kind>>
fields  == <<step_count, parameters, loss_stats, registry>>
ctl     == <<pc, op, status, err>>
genv    == <<n_steps, step, gen_b, gen_i, dp, yielded>>
argv    == <<raw_args, obs_arg, cadence>>
hist    == <<after_reset, prev>>
extrav  == <<extraCalls, extraArgs>>
runv    == <<obs, loggers, log_data, log_idx, pbar_disable, pbar_n, old_step_value,
             warned, jsonLogs, argv, pbar_sum>>
obsv    == <<start_count, start_params, batch_count, nYields, fbCalls, optCalls,
             optArgs, optResult, estCalls, extrav>>
sinkv   == <<sinkTrace, logCalls, flushTrace>>
vars    == <<driver, fields, ctl, hist, genv, runv, obsv, sinkv>>

\* Line 169: obs=None, the default of run.
NoObs == [given |-> FALSE, v |-> <<>>]

\* ------------------------------------------------------------------ hooks
\* optimizer.update(dp, parameters): a deterministic function that always
\* moves the parameters.
OptimizerUpdate(d, p) == (p + d + 1) % NumParams

\* The update proposal the concrete driver's backward pass computes at p.
Gradient(p) == p % 2

\* The loss statistics the concrete driver's forward pass computes at p.
LossOf(p) == <<"stats", p>>

\* self._estimate_stats(observable) at parameters p.
EstimateStats(o, p) == <<"stats", o, p>>

\* self.step_value: the step count unless a subclass overrides it.
StepValue == step_count

\* --------------------------------------------------------------- helpers
\* The sequence <<k, ..., 1>>: a collection of k sinks, registered in an order
\* that is not the order of their names.
SinkList(k) == [i \in 1 .. k |-> k + 1 - i]

\* A range that is empty unless n > 1.
Enter_late(n) == IF n > 1 THEN "fb" ELSE "exhausted"

\* range(0, n, s) has a first element exactly when n > 0.
Enter(n) == IF n > 0 THEN "fb" ELSE "exhausted"

\* An exception leaves the operation: it propagates to the client.
Raise(e) ==
    /\ pc' = "done"
    /\ status' = "raised"
    /\ err' = e

\* The operation returns normally.
Return ==
    /\ pc' = "done"
    /\ status' = "ok"
    /\ err' = None

\* A top-level call begins: the state it starts from is remembered.
BeginOp(name) ==
    /\ op' = name
    /\ start_count' = step_count
    /\ start_params' = parameters
    /\ batch_count' = step_count

\* ------------------------------------------------------------------ Init
\* The driver as __init__ leaves it (lines 35-44), the client at top level.
Init ==
    /\ mynode \in 0 .. 1
    /\ kind \in Kinds
    /\ step_count = 0
    /\ parameters \in Params
    /\ loss_stats = NoStats
    /\ registry = <<>>
    /\ pc = "idle"
    /\ op = "none"
    /\ status = "ok"
    /\ err = None
    /\ after_reset = FALSE
    /\ prev = <<>>
    /\ n_steps = 0
    /\ step = 1
    /\ gen_b = 0
    /\ gen_i = 0
    /\ dp = 0
    /\ yielded = -1
    /\ obs = <<>>
    /\ loggers = <<>>
    /\ log_data = <<>>
    /\ log_idx = 0
    /\ pbar_disable = TRUE
    /\ pbar_n = 0
    /\ old_step_value = 0
    /\ warned = 0
    /\ jsonLogs = <<>>
    /\ raw_args = <<>>
    /\ obs_arg = NoObs
    /\ cadence = <<>>
    /\ pbar_sum = 0
    /\ start_count = 0
    /\ start_params = 0
    /\ batch_count = 0
    /\ nYields = 0
    /\ fbCalls = 0
    /\ optCalls = 0
    /\ optArgs = <<>>
    /\ optResult = -1
    /\ estCalls = 0
    /\ extraCalls = 0
    /\ extraArgs = <<>>
    /\ sinkTrace = <<>>
    /\ logCalls = [s \in Sinks |-> 0]
    /\ flushTrace = <<>>

\* The client is back at top level: the finished call's frame is gone, the
\* driver keeps its fields.
ClientContinues ==
    /\ pc = "done"
    /\ pc' = "idle"
    /\ op' = "none"
    /\ status' = "ok"
    /\ err' = None
    /\ after_reset' = (op = "reset")
    /\ prev' = <<>>
    /\ n_steps' = 0
    /\ step' = 1
    /\ gen_b' = 0
    /\ gen_i' = 0
    /\ dp' = 0
    /\ yielded' = -1
    /\ obs' = <<>>
    /\ loggers' = <<>>
    /\ log_data' = <<>>
    /\ log_idx' = 0
    /\ pbar_disable' = TRUE
    /\ pbar_n' = 0
    /\ old_step_value' = 0
    /\ warned' = 0
    /\ jsonLogs' = <<>>
    /\ raw_args' = <<>>
    /\ obs_arg' = NoObs
    /\ cadence' = <<>>
    /\ pbar_sum' = 0
    /\ start_count' = 0
    /\ start_params' = 0
    /\ batch_count' = 0
    /\ nYields' = 0
    /\ fbCalls' = 0
    /\ optCalls' = 0
    /\ optArgs' = <<>>
    /\ optResult' = -1
    /\ estCalls' = 0
    /\ extraCalls' = 0
    /\ extraArgs' = <<>>
    /\ sinkTrace' = <<>>
    /\ logCalls' = [s \in Sinks |-> 0]
    /\ flushTrace' = <<>>
    /\ UNCHANGED <<driver, fields>>

\* ----------------------------------------------------- reset (lines 85-93)
\* Line 92: the step count after reset.
CountAfterReset == 0

reset ==
    /\ pc = "idle"
    /\ BeginOp("reset")
    /\ step_count' = CountAfterReset
    /\ Return
    /\ UNCHANGED <<driver, hist, parameters, loss_stats, registry, genv, runv, nYields,
                   fbCalls, optCalls, optArgs, optResult, estCalls, extrav,
                   sinkv>>

\* ------------------------------------- update_parameters (lines 278-286)
\* update_parameters forgetting line 286.
CountAfterUpdate_keeps(c) == c

\* update_parameters counting down at line 286.
CountAfterUpdate_down(c) == c - 1

\* Line 286: self._step_count += 1.
CountAfterUpdate(c) == c + 1

\* Line 285: the arguments handed to self._optimizer.update.
UpdateArgs(d) == <<d, parameters>>

\* The body of update_parameters(d), entered with the step count at c; the
\* optimizer hook returns.
update_parameters(d, c) ==
    /\ optCalls' = optCalls + 1
    /\ optArgs' = UpdateArgs(d)
    /\ optResult' = OptimizerUpdate(UpdateArgs(d)[1], UpdateArgs(d)[2])
    /\ parameters' = optResult'
    /\ step_count' = CountAfterUpdate(c)

\* The client calls update_parameters(d) itself.
CallUpdateParameters ==
    /\ pc = "idle"
    /\ step_count <= MaxStart
    /\ BeginOp("update_parameters")
    /\ \E d \in Grads :
        /\ dp' = d
        /\ \/ /\ update_parameters(d, step_count)
              /\ Return
           \/ /\ Raise("HookError")       \* the optimizer raises
              /\ UNCHANGED <<parameters, step_count, optCalls, optArgs, optResult>>
    /\ UNCHANGED <<driver, hist, loss_stats, registry, n_steps, step, gen_b, gen_i,
                   yielded, runv, nYields, fbCalls, estCalls, extrav, sinkv>>

\* ------------------------------- _forward_and_backward (lines 46-72)
\* What the call does to the loss statistics for each override strategy: the
\* split driver's _forward assigns them, the joint driver monitors no loss.
LossAfterForward ==
    IF kind = "split" THEN LossOf(parameters) ELSE loss_stats

\* An inherited _forward that passes instead of raising.
NotImplemented_passes == FALSE

\* TRUE when the inherited _forward is reached and raises.
NotImplemented == kind = "none"

\* ------------------------------------------------ iter (lines 133-153)
\* iter yielding after the bump of line 152.
YieldValue_late == step_count + 1

\* Line 150: the value handed to the consumer.
YieldValue == step_count

\* iter yielding on the last pass of the inner loop.
YieldsHere_last == gen_i = step - 1

\* iter yielding on every pass of the inner loop.
YieldsHere_always == TRUE

\* Line 149: the yield is taken on the first pass of the inner loop.
YieldsHere == gen_i = 0

\* Line 152: self._step_count += 1.
CountAfterIterBump(c) == c + 1

\* Line 148: dp = self._forward_and_backward().
FwdBwd ==
    /\ pc = "fb"
    /\ fbCalls' = fbCalls + 1
    /\ \/ /\ NotImplemented
          /\ Raise("NotImplementedError")
          /\ UNCHANGED <<dp, loss_stats>>
       \/ /\ ~NotImplemented
          /\ Raise("HookError")          \* the concrete pass raises
          /\ UNCHANGED <<dp, loss_stats>>
       \/ /\ ~NotImplemented
          /\ loss_stats' = LossAfterForward
          /\ dp' = Gradient(parameters)
          /\ pc' = "yield"
          /\ UNCHANGED <<status, err>>
    /\ UNCHANGED <<driver, hist, step_count, parameters, registry, op, n_steps, step,
                   gen_b, gen_i, yielded, runv, start_count, start_params,
                   batch_count, nYields, optCalls, optArgs, optResult, estCalls,
                   extrav, sinkv>>

\* Lines 149-150: if i == 0: yield self.step_count.
Yield ==
    /\ pc = "yield"
    /\ IF YieldsHere
          THEN /\ yielded' = YieldValue
               /\ nYields' = nYields + 1
               /\ pc' = "body"
          ELSE /\ pc' = "upd"
               /\ UNCHANGED <<yielded, nYields>>
    /\ UNCHANGED <<driver, hist, fields, op, status, err, n_steps, step, gen_b, gen_i, dp,
                   runv, start_count, start_params, batch_count, fbCalls, optCalls,
                   optArgs, optResult, estCalls, extrav, sinkv>>

\* Lines 146-147: the loop headers, reached after an inner pass.
NextPass ==
    IF gen_i + 1 < step
       THEN /\ gen_i' = gen_i + 1
            /\ pc' = "fb"
            /\ UNCHANGED <<gen_b, batch_count>>
       ELSE IF gen_b + step < n_steps
               THEN /\ gen_b' = gen_b + step
                    /\ gen_i' = 0
                    /\ batch_count' = step_count'
                    /\ pc' = "fb"
               ELSE /\ pc' = "exhausted"
                    /\ UNCHANGED <<gen_b, gen_i, batch_count>>

\* Lines 152-153: self._step_count += 1; self.update_parameters(dp).
Update ==
    /\ pc = "upd"
    /\ \/ /\ update_parameters(dp, CountAfterIterBump(step_count))
          /\ NextPass
          /\ UNCHANGED <<status, err>>
       \/ /\ step_count' = CountAfterIterBump(step_count)
          /\ Raise("HookError")          \* the optimizer raises
          /\ UNCHANGED <<parameters, optCalls, optArgs, optResult, gen_b, gen_i,
                         batch_count>>
    /\ UNCHANGED <<driver, hist, loss_stats, registry, op, n_steps, step, dp, yielded,
                   runv, start_count, start_params, nYields, fbCalls, estCalls,
                   extrav, sinkv>>

\* The client calls iter(n, s): the generator is created, nothing runs yet.
CallIter ==
    /\ pc = "idle"
    /\ step_count <= MaxStart
    /\ BeginOp("iter")
    /\ \E n \in 0 .. MaxSteps, s \in 1 .. MaxStep :
        /\ n_steps' = n
        /\ step' = s
    /\ pc' = "created"
    /\ status' = "running"
    /\ UNCHANGED <<driver, hist, fields, err, gen_b, gen_i, dp, yielded, runv, nYields,
                   fbCalls, optCalls, optArgs, optResult, estCalls, extrav,
                   sinkv>>

\* The client asks the generator for its next value.
ClientNext ==
    /\ op = "iter"
    /\ \/ /\ pc = "created"
          /\ pc' = Enter(n_steps)
       \/ /\ pc = "body"
          /\ pc' = "upd"
    /\ UNCHANGED <<driver, hist, fields, op, status, err, genv, runv, obsv, sinkv>>

\* A generator that completes the advance in progress when it is closed.
CloseGenerator_finishes ==
    /\ pc' = "upd"
    /\ status' = "cancelled"

\* The generator is closed while suspended at line 151: no statement of its
\* body runs any more.
CloseGenerator ==
    /\ pc' = "done"
    /\ status' = "cancelled"

\* The client stops consuming the generator after a yield.
ClientStop ==
    /\ op = "iter"
    /\ pc = "body"
    /\ CloseGenerator
    /\ UNCHANGED <<driver, hist, fields, op, err, genv, runv, obsv, sinkv>>

\* The generator is exhausted: the client's loop ends.
ClientDone ==
    /\ op = "iter"
    /\ pc = "exhausted"
    /\ Return
    /\ UNCHANGED <<driver, hist, fields, op, genv, runv, obsv, sinkv>>

\* --------------------------------------------- advance (lines 155-162)
\* advance iterating in batches of two.
AdvanceStep_two == 1 + 1

\* The step argument advance passes to iter (its default).
AdvanceStep == 1

\* advance(k): for _ in self.iter(k), up to the first request to the generator.
CallAdvance ==
    /\ pc = "idle"
    /\ step_count <= MaxStart
    /\ BeginOp("advance")
    /\ \E k \in 0 .. MaxSteps :
        /\ n_steps' = k
        /\ step' = AdvanceStep
        /\ pc' = Enter(k)
    /\ status' = "running"
    /\ UNCHANGED <<driver, hist, fields, err, gen_b, gen_i, dp, yielded, runv, nYields,
                   fbCalls, optCalls, optArgs, optResult, estCalls, extrav,
                   sinkv>>

\* Line 162: pass, and the loop asks for the next value.
AdvanceBody ==
    /\ op = "advance"
    /\ pc = "body"
    /\ pc' = "upd"
    /\ UNCHANGED <<driver, hist, fields, op, status, err, genv, runv, obsv, sinkv>>

\* The loop of advance ends and advance returns.
AdvanceReturn ==
    /\ op = "advance"
    /\ pc = "exhausted"
    /\ Return
    /\ UNCHANGED <<driver, hist, fields, op, genv, runv, obsv, sinkv>>

\* advance(k) called right after an advance that returned: the driver is as
\* the first call left it, and the client remembers what the first call was.
AdvanceAgain ==
    /\ pc = "done"
    /\ op = "advance"
    /\ status = "ok"
    /\ prev = <<>>
    /\ prev' = <<n_steps, start_count, start_params>>
    /\ after_reset' = FALSE
    /\ BeginOp("advance")
    /\ \E k \in 0 .. MaxSteps :
        /\ n_steps' = k
        /\ step' = AdvanceStep
        /\ pc' = Enter(k)
    /\ status' = "running"
    /\ gen_b' = 0
    /\ gen_i' = 0
    /\ dp' = 0
    /\ yielded' = -1
    /\ nYields' = 0
    /\ fbCalls' = 0
    /\ optCalls' = 0
    /\ optArgs' = <<>>
    /\ optResult' = -1
    /\ UNCHANGED <<driver, fields, err, runv, estCalls, extrav, sinkv>>

\* -------------------------------------------- estimate (lines 264-276)
\* netket.vmc_common.tree_map on a mapping: a new mapping with the keys of t,
\* each leaf replaced by f of it.
tree_map(f, t) == [k \in DOMAIN t |-> f[t[k]]]

\* The calls of F that tree_map(F, t) makes: one per leaf.
tree_map_calls(t) == Cardinality(DOMAIN t)

\* The mappings from names to operators a client may hold.
ObsDicts == UNION {[S -> Operators] : S \in SUBSET ObsNames}

\* An estimate that maps _estimate_stats over the keys, not the operators.
estimate_of_keys(o) == [k \in DOMAIN o |-> EstimateStats(k, parameters)]

\* Line 276: tree_map(self._estimate_stats, observables).
estimate(o) ==
    tree_map([x \in Operators |-> EstimateStats(x, parameters)], o)

\* The client calls estimate(o) itself.
CallEstimate ==
    /\ pc = "idle"
    /\ BeginOp("estimate")
    /\ \E o \in ObsDicts :
        /\ obs' = o
        /\ log_data' = estimate(o)
        /\ estCalls' = tree_map_calls(o)
    /\ Return
    /\ UNCHANGED <<driver, hist, fields, genv, loggers, log_idx, pbar_disable, pbar_n, pbar_sum,
                   old_step_value, warned, jsonLogs, argv, nYields, fbCalls, optCalls,
                   optArgs, optResult, extrav, sinkv>>

\* ------------------------------------- add_observable (lines 298-310)
\* The operator a client registers under each name.
NamedOps == [k \in ObsNames |-> IF k = "A" THEN "X" ELSE "Z"]

\* Line 310: self._obs[name] = obs.
SetItem(d, name, x) ==
    [k \in (DOMAIN d) \cup {name} |-> IF k = name THEN x ELSE d[k]]

add_observable ==
    /\ pc = "idle"
    /\ \E name \in ObsNames :
        /\ name \notin DOMAIN registry
        /\ registry' = SetItem(registry, name, NamedOps[name])
    /\ UNCHANGED <<driver, hist, step_count, parameters, loss_stats, ctl, genv, runv,
                   obsv, sinkv>>

\* ------------------------------------------------- run (lines 164-262)
\* The default values of save_params_every and write_every (lines 170-171).
SaveParamsEvery == 50
WriteEvery      == 50

\* The key the loss statistics are logged under (self._loss_name).
LossName == "Energy"

IntArg(n)  == [t |-> "int", v |-> n]
StrArg     == [t |-> "str", v |-> 0]
NoneArg    == [t |-> "None", v |-> 0]
LoggerArg  == [t |-> "logger", v |-> MaxLoggers]
ListArg(k) == [t |-> "list", v |-> k]

\* What a client passes as out.
OutArgs == {NoneArg, StrArg, LoggerArg} \cup {ListArg(k) : k \in 0 .. MaxLoggers}

\* What a client passes as the first two positional arguments: the
\* documented order, or the order of before v2.1.
RunArgs ==
    {<<IntArg(n), o>> : n \in 0 .. MaxSteps, o \in OutArgs}
        \cup {<<StrArg, IntArg(n)>> : n \in 0 .. MaxSteps}

\* What a client passes as obs: nothing, or a collection.
ObsArgs == {NoObs}
               \cup {[given |-> TRUE, v |-> o] : o \in {<<>>, NamedOps}}

\* What a client passes as save_params_every and write_every: the defaults,
\* or, with a path as out, values of its own.
OwnCadence == <<10, 20>>

Cadences(a1, a2) ==
    IF a1.t = "str" \/ a2.t = "str"
       THEN {<<SaveParamsEvery, WriteEvery>>, OwnCadence}
       ELSE {<<SaveParamsEvery, WriteEvery>>}

\* A run without the compatibility swap.
Swapped_never(a1, a2) == FALSE

\* Line 201: the call has the argument order of before v2.1.
Swapped(a1, a2) == a1.t = "str" /\ a2.t = "int"

\* Line 202: n_iter after the compatibility swap.
NIter(a1, a2) == IF Swapped(a1, a2) THEN a2 ELSE a1

\* Line 202: out after the compatibility swap.
Out(a1, a2) == IF Swapped(a1, a2) THEN a1 ELSE a2

\* A run that takes an empty obs argument for a missing one.
ResolveObs_falsy(o) ==
    IF o.given /\ o.v # <<>> THEN o.v
    ELSE IF Cardinality(DOMAIN registry) # 0 THEN registry ELSE <<>>

\* Lines 207-212: the observables of the run.
ResolveObs(o) ==
    IF o.given THEN o.v
    ELSE IF Cardinality(DOMAIN registry) # 0 THEN registry ELSE <<>>

\* A run that falls back on the default logger when out is absent.
ResolveLoggers_default(out) ==
    IF mynode = 0
       THEN IF out.t \in {"str", "None"} THEN <<JsonSink>>
            ELSE IF out.t = "list" THEN SinkList(out.v)
            ELSE <<out.v>>
       ELSE <<>>

\* Lines 214-232: the logger set of the run.
ResolveLoggers(out) ==
    IF out.t = "None" THEN <<>>
    ELSE IF mynode = 0
         THEN IF out.t = "str" THEN <<JsonSink>>
              ELSE IF out.t = "list" THEN SinkList(out.v)
              ELSE <<out.v>>
         ELSE <<>>

\* A run that constructs its JsonLog with the default cadences.
ResolveJsonLogs_defaults(out, cad) ==
    IF out.t = "str" /\ mynode = 0
       THEN << <<"w", SaveParamsEvery, WriteEvery>> >>
       ELSE <<>>

\* Line 225: the JsonLog objects constructed.
ResolveJsonLogs(out, cad) ==
    IF out.t = "str" /\ mynode = 0
       THEN << <<"w", cad[1], cad[2]>> >>
       ELSE <<>>

\* Lines 232-234: whether the progress bar is disabled.
PbarDisable(show) == IF mynode = 0 THEN ~show ELSE TRUE

\* pbar.update(delta) on a bar showing n.
PbarUpdate(n, delta) == IF pbar_disable THEN n ELSE n + delta

\* Lines 197-236: run up to the first request to the generator.
CallRun ==
    /\ pc = "idle"
    /\ step_count <= MaxStart
    /\ BeginOp("run")
    /\ \E a \in RunArgs, o \in ObsArgs, show \in BOOLEAN, s \in 1 .. MaxStep :
      \E cad \in Cadences(a[1], a[2]) :
        /\ raw_args' = a
        /\ obs_arg' = o
        /\ cadence' = cad
        /\ warned' = IF Swapped(a[1], a[2]) THEN 1 ELSE 0
        /\ n_steps' = NIter(a[1], a[2]).v
        /\ step' = s
        /\ obs' = ResolveObs(o)
        /\ loggers' = ResolveLoggers(Out(a[1], a[2]))
        /\ jsonLogs' = ResolveJsonLogs(Out(a[1], a[2]), cad)
        /\ pbar_disable' = PbarDisable(show)
        /\ pc' = Enter(n_steps')
    /\ old_step_value' = StepValue
    /\ status' = "running"
    /\ UNCHANGED <<driver, hist, fields, err, gen_b, gen_i, dp, yielded, log_data, log_idx,
                   pbar_n, pbar_sum, nYields, fbCalls, optCalls, optArgs, optResult, estCalls,
                   extrav, sinkv>>

\* A run that logs the loss statistics whether defined or not.
WithLoss_always(d) ==
    [k \in (DOMAIN d) \cup {LossName} |->
        IF k = LossName THEN loss_stats ELSE d[k]]

\* Lines 241-243: the loss statistics, when defined, join the data.
WithLoss(d) ==
    IF loss_stats # NoStats
       THEN [k \in (DOMAIN d) \cup {LossName} |->
                IF k = LossName THEN loss_stats ELSE d[k]]
       ELSE d

\* A run that estimates the observables only when a logger will see them.
ReportObs_gated == IF Len(loggers) > 0 THEN obs ELSE <<>>

\* Line 237: the collection estimated at a report.
ReportObs == obs

\* Lines 237-243: the data of the report.
RunEstimate ==
    /\ op = "run"
    /\ pc = "body"
    /\ log_data' = WithLoss(estimate(ReportObs))
    /\ estCalls' = estCalls + tree_map_calls(ReportObs)
    /\ sinkTrace' = <<>>
    /\ pc' = "r_extra"
    /\ UNCHANGED <<driver, hist, fields, op, status, err, genv, obs, loggers, log_idx,
                   pbar_disable, pbar_n, pbar_sum, old_step_value, warned, jsonLogs, argv,
                   start_count, start_params, batch_count, nYields, fbCalls,
                   optCalls, optArgs, optResult, extrav, logCalls, flushTrace>>

\* A run that lets the driver extend the data at every report.
CallsExtra_always == TRUE

\* Line 245: the guard of the logging block.
CallsExtra == Len(loggers) > 0

\* Line 248: the arguments of self._log_additional_data.
ExtraArgs == <<log_data, yielded>>

\* Lines 245-248: with a logger to serve, the driver may extend the data
\* (lines 288-296: by default it does not), then the loop over the loggers
\* begins.
RunExtra ==
    /\ op = "run"
    /\ pc = "r_extra"
    /\ IF CallsExtra
          THEN /\ extraCalls' = extraCalls + 1
               /\ extraArgs' = ExtraArgs
          ELSE UNCHANGED extrav
    /\ IF Len(loggers) > 0
          THEN /\ log_idx' = 1
               /\ pc' = "r_log"
          ELSE /\ pc' = "r_pbar"
               /\ UNCHANGED log_idx
    /\ UNCHANGED <<driver, hist, fields, op, status, err, genv, obs, loggers, log_data,
                   pbar_disable, pbar_n, pbar_sum, old_step_value, warned, jsonLogs, argv,
                   start_count, start_params, batch_count, nYields, fbCalls,
                   optCalls, optArgs, optResult, estCalls, sinkv>>

\* Line 251: the step handed to the sink.
LoggedStep == step_count

\* A loop over the loggers that serves every other one.
NextLogger_skips(i) == i + 2

\* The index of the for loops over loggers after position i.
NextLogger(i) == i + 1

\* A run that notes the failure of a sink and goes on.
SinkRaises_noted ==
    /\ pc' = "r_pbar"
    /\ status' = status
    /\ err' = "SinkError"

\* Line 251: the call of the sink raises; no handler surrounds it.
SinkRaises == Raise("SinkError")

\* Lines 250-251: one pass of the loop over the loggers.
RunLog ==
    /\ op = "run"
    /\ pc = "r_log"
    /\ \/ /\ sinkTrace' = Append(sinkTrace, <<loggers[log_idx], LoggedStep>>)
          /\ logCalls' = [logCalls EXCEPT ![loggers[log_idx]] = @ + 1]
          /\ log_idx' = NextLogger(log_idx)
          /\ pc' = IF log_idx' > Len(loggers) THEN "r_pbar" ELSE "r_log"
          /\ UNCHANGED <<status, err>>
       \/ /\ SinkRaises
          /\ UNCHANGED <<sinkTrace, logCalls, log_idx>>
    /\ UNCHANGED <<driver, hist, fields, op, genv, obs, loggers, log_data, pbar_disable,
                   pbar_n, pbar_sum, old_step_value, warned, jsonLogs, argv, obsv, flushTrace>>

\* A progress bar advanced by the stride of the run.
ProgressDelta_stride == step

\* Lines 254 and 258: what is handed to pbar.update.
ProgressDelta == StepValue - old_step_value

\* Lines 254-255: the progress of the report, then the loop asks the
\* generator for its next value.
RunPbar ==
    /\ op = "run"
    /\ pc = "r_pbar"
    /\ pbar_n' = PbarUpdate(pbar_n, ProgressDelta)
    /\ pbar_sum' = pbar_sum + ProgressDelta
    /\ old_step_value' = StepValue
    /\ pc' = "upd"
    /\ UNCHANGED <<driver, hist, fields, op, status, err, genv, obs, loggers, log_data,
                   log_idx, pbar_disable, warned, jsonLogs, argv, obsv, sinkv>>

\* A run that flushes only what a report has filled.
FlushList_reported == IF nYields > 0 THEN loggers ELSE <<>>

\* Line 261: the sinks flushed at the end of the run.
FlushList == loggers

\* Line 258: the final progress update, after the loop.
RunFinal ==
    /\ op = "run"
    /\ pc = "exhausted"
    /\ pbar_n' = PbarUpdate(pbar_n, ProgressDelta)
    /\ pbar_sum' = pbar_sum + ProgressDelta
    /\ IF Len(FlushList) > 0
          THEN /\ log_idx' = 1
               /\ pc' = "r_flush"
               /\ UNCHANGED <<status, err>>
          ELSE /\ Return
               /\ UNCHANGED log_idx
    /\ UNCHANGED <<driver, hist, fields, op, genv, obs, loggers, log_data, pbar_disable,
                   old_step_value, warned, jsonLogs, argv, obsv, sinkv>>

\* Lines 261-262: one pass of the loop flushing the loggers.
RunFlush ==
    /\ op = "run"
    /\ pc = "r_flush"
    /\ \/ /\ flushTrace' = Append(flushTrace, FlushList[log_idx])
          /\ log_idx' = NextLogger(log_idx)
          /\ IF log_idx' > Len(FlushList)
                THEN Return
                ELSE UNCHANGED <<pc, status, err>>
       \/ /\ Raise("FlushError")         \* the sink raises
          /\ UNCHANGED <<flushTrace, log_idx>>
    /\ UNCHANGED <<driver, hist, fields, op, genv, obs, loggers, log_data, pbar_disable,
                   pbar_n, pbar_sum, old_step_value, warned, jsonLogs, argv, obsv, sinkTrace,
                   logCalls>>

Next ==
    \/ ClientContinues
    \/ reset
    \/ CallUpdateParameters
    \/ CallEstimate
    \/ add_observable
    \/ CallIter
    \/ ClientNext
    \/ ClientStop
    \/ ClientDone
    \/ CallAdvance
    \/ AdvanceBody
    \/ AdvanceReturn
    \/ AdvanceAgain
    \/ CallRun
    \/ RunEstimate
    \/ RunExtra
    \/ RunLog
    \/ RunPbar
    \/ RunFinal
    \/ RunFlush
    \/ FwdBwd
    \/ Yield
    \/ Update

Spec == Init /\ [][Next]_vars

\* ================================================================ claims
\* The state one inner advance of iter (lines 148-153) leaves, applied k
\* times to the step count c and the parameters p.
RECURSIVE AfterAdvances(_, _, _)
AfterAdvances(c, p, k) ==
    IF k = 0 THEN <<c, p>>
    ELSE AfterAdvances(CountAfterUpdate(CountAfterIterBump(c)),
                       OptimizerUpdate(Gradient(p), p), k - 1)

Iterating == op \in {"iter", "advance", "run"}
Drained   == pc = "done" /\ Iterating /\ status = "ok"

\* C1: fully consuming iter(n_steps, step), with step dividing n_steps, from
\* the step count c leaves the step count at c + n_steps.
C1_CounterAdvancesByNSteps ==
    (Drained /\ op = "iter" /\ n_steps % step = 0)
        => step_count = start_count + n_steps

\* C2: fully consuming iter(n_steps, step), with step dividing n_steps, yields
\* n_steps / step values, and every value yielded is the step count as it
\* stood when its batch began.
C2_YieldsOncePerBatch ==
    /\ (Iterating /\ pc = "body") => yielded = batch_count
    /\ (Drained /\ n_steps % step = 0) => nYields * step = n_steps

C2_Witness ==
    Drained /\ op = "iter" /\ step = 2 /\ n_steps = 4 /\ nYields = 2

\* C3: a call update_parameters(dp) that returns has called the optimizer
\* once with (dp, the parameters before the call), has stored the hook's
\* result as the parameters and has added exactly 1 to the step count.
C3_UpdateParameters ==
    (pc = "done" /\ op = "update_parameters" /\ status = "ok")
        => /\ optCalls = 1
           /\ optArgs = <<dp, start_params>>
           /\ parameters = optResult
           /\ parameters = OptimizerUpdate(dp, start_params)
           /\ step_count = start_count + 1

C3_Witness ==
    /\ pc = "done" /\ op = "update_parameters" /\ status = "ok"
    /\ start_count = 1 /\ dp = 1

\* C4: advance(k) and fully draining iter(k) end in the same state: from the
\* step count c and the parameters p both leave what k inner advances leave.
C4_AdvanceIsDrainedIter ==
    (Drained /\ (op = "advance" \/ (op = "iter" /\ step = 1)))
        => <<step_count, parameters>>
               = AfterAdvances(start_count, start_params, n_steps)

C4_Witness ==
    Drained /\ op = "advance" /\ n_steps = 3 /\ start_count = 1

\* C5: reset sets the step count to 0, and an advance(1) made right after it
\* yields 0 and leaves the step count at 1.
C5_ResetThenAdvance ==
    /\ (pc = "done" /\ op = "reset") => step_count = 0
    /\ (Drained /\ op = "advance" /\ after_reset /\ n_steps = 1)
            => yielded = 0 /\ step_count = 1

\* C6: the step count is 0 at construction, and no transition other than
\* reset decreases it.
C6_CounterMonotone ==
    /\ step_count = 0
    /\ [][(op' # "reset") => step_count' >= step_count]_vars

C6_Witness ==
    Drained /\ op = "run" /\ step_count > start_count /\ start_count > 0

\* C7: a driver that overrides neither _forward/_backward nor
\* _forward_and_backward exists, and its first request to an iterating
\* operation raises NotImplementedError out of the first call of
\* _forward_and_backward: nothing is yielded, nothing is updated.
C7_LazyContractCheck ==
    kind = "none"
        => /\ pc \notin {"yield", "body", "upd"}
           /\ (pc = "done" /\ Iterating /\ n_steps > 0)
                => /\ status = "raised"
                   /\ err = "NotImplementedError"
                   /\ fbCalls = 1
                   /\ optCalls = 0
                   /\ nYields = 0
                   /\ step_count = start_count
                   /\ parameters = start_params

C7_Witness ==
    /\ kind = "none" /\ pc = "done" /\ op = "advance" /\ n_steps = 1
    /\ err = "NotImplementedError"

\* The logger calls of the run, over all sinks.
RECURSIVE SumCalls(_)
SumCalls(S) ==
    IF S = {} THEN 0
    ELSE LET s == CHOOSE x \in S : TRUE IN logCalls[s] + SumCalls(S \ {s})

\* C8: on a process of rank other than 0 a run calls no logger, flushes no
\* logger and disables the progress display, and it leaves the step count at
\* its initial value plus n_iter when step_size divides n_iter.
C8_NonPrimaryRun ==
    (op = "run" /\ mynode # 0)
        => /\ SumCalls(Sinks) = 0
           /\ flushTrace = <<>>
           /\ pbar_disable
           /\ (Drained /\ n_steps % step = 0) => step_count = start_count + n_steps

\* What the sinks have received when the first k loggers have been served with
\* the yielded step.
Served(k) == [i \in 1 .. k |-> <<loggers[i], yielded>>]

\* C9: in a run on the primary process every report serves every sink once,
\* in registration order, with the step iter yielded; each sink has as many
\* calls as iter has yielded.
C9_EverySinkEveryReport ==
    (op = "run" /\ mynode = 0)
        => /\ (pc = "r_log") => sinkTrace = Served(log_idx - 1)
           /\ (pc = "r_pbar") => sinkTrace = Served(Len(loggers))
           /\ (pc = "r_pbar" \/ Drained)
                => \A i \in 1 .. Len(loggers) : logCalls[loggers[i]] = nYields

C9_Witness ==
    /\ op = "run" /\ mynode = 0 /\ pc = "r_pbar"
    /\ Len(loggers) = 2 /\ nYields = 2 /\ yielded > 0

\* C10: a successful run on the primary process flushes every sink once, in
\* registration order, also when nothing was reported; a flush happens only
\* after the loop, and no logger is called once a flush has happened.
C10_FlushAtEnd ==
    /\ []((Drained /\ op = "run" /\ mynode = 0) => flushTrace = loggers)
    /\ [](flushTrace # <<>> => pc \in {"r_flush", "done"})
    /\ [][(pc = "r_flush") => (logCalls' = logCalls /\ sinkTrace' = sinkTrace)]_vars

C10_Witness ==
    /\ Drained /\ op = "run" /\ mynode = 0
    /\ Len(loggers) = 2 /\ flushTrace = loggers /\ nYields > 0


\* The parameters k inner advances leave, from the start of the operation.
ParamsAfter(k) == AfterAdvances(start_count, start_params, k)[2]

\* The run was called without an output target.
NoOut == op = "run" /\ raw_args[2].t = "None"

\* C11: a run without output target has an empty logger set, constructs no
\* logger, calls and flushes no sink, fails only if a hook of the optimization
\* fails, and makes the advances asked for.
C11_NoOutputTarget ==
    NoOut
        => /\ loggers = <<>>
           /\ jsonLogs = <<>>
           /\ SumCalls(Sinks) = 0
           /\ flushTrace = <<>>
           /\ extraCalls = 0
           /\ err \in {None, "HookError", "NotImplementedError"}
           /\ (pc = "exhausted") => (optCalls >= n_steps /\ fbCalls = optCalls)
           /\ (Drained /\ n_steps % step = 0)
                => (optCalls = n_steps /\ parameters = ParamsAfter(n_steps))

C11_Witness ==
    /\ Drained /\ NoOut /\ mynode = 0 /\ ~pbar_disable
    /\ n_steps = 4 /\ step = 2 /\ optCalls = 4

\* The run was called on the primary process with a path as output target.
PathOut == op = "run" /\ mynode = 0 /\ raw_args[2].t = "str"

\* C12: a run on the primary process with a path as output target constructs
\* one JsonLog, in overwrite mode and with the cadences passed, which is its
\* only logger; the logger is flushed once, and only as the run succeeds.
C12_DefaultLogger ==
    PathOut
        => /\ jsonLogs = << <<"w", cadence[1], cadence[2]>> >>
           /\ loggers = <<JsonSink>>
           /\ Drained => flushTrace = <<JsonSink>>
           /\ (flushTrace # <<>>) => Drained

C12_Witness ==
    /\ Drained /\ PathOut /\ cadence = OwnCadence
    /\ nYields = 2 /\ flushTrace = <<JsonSink>>

\* The first two arguments were passed in the order of before v2.1.
Legacy == raw_args[1].t = "str" /\ raw_args[2].t = "int"

\* The logger set lines 214-232 give to the output target o.
LoggersFor(o) ==
    IF mynode # 0 \/ o.t = "None" THEN <<>>
    ELSE IF o.t = "str" THEN <<JsonSink>>
    ELSE IF o.t = "list" THEN [i \in 1 .. o.v |-> o.v + 1 - i]
    ELSE <<o.v>>

\* C13: run(s, n), s a string and n an integer, runs as run(n, s) does: n
\* iterations, the logger set of the path s, the same calls of the sinks; it
\* emits one deprecation notice.  Any other call uses its arguments as given
\* and emits no notice.
C13_LegacyOrder ==
    (op = "run")
        => /\ warned = IF Legacy THEN 1 ELSE 0
           /\ n_steps = IF Legacy THEN raw_args[2].v ELSE raw_args[1].v
           /\ loggers = LoggersFor(IF Legacy THEN raw_args[1] ELSE raw_args[2])
           /\ Len(jsonLogs) = IF loggers = <<JsonSink>> THEN 1 ELSE 0
           /\ (Drained /\ Legacy)
                => /\ flushTrace = loggers
                   /\ \A i \in 1 .. Len(loggers) : logCalls[loggers[i]] = nYields
                   /\ nYields * step >= n_steps
                   /\ parameters = ParamsAfter(nYields * step)

C13_Witness ==
    /\ Drained /\ op = "run" /\ Legacy /\ mynode = 0
    /\ n_steps = 2 /\ warned = 1 /\ flushTrace = <<JsonSink>>


\* C14: estimate of a mapping of named operators returns a mapping with the
\* same keys, each value what _estimate_stats gives for the operator under
\* that key, and calls _estimate_stats once per operator.
C14_EstimateKeepsKeys ==
    (pc = "done" /\ op = "estimate")
        => /\ DOMAIN log_data = DOMAIN obs
           /\ \A k \in DOMAIN obs : log_data[k] = EstimateStats(obs[k], parameters)
           /\ estCalls = Cardinality(DOMAIN obs)
           /\ step_count = start_count
           /\ parameters = start_params

C14_Witness ==
    /\ pc = "done" /\ op = "estimate"
    /\ DOMAIN obs = {"A", "B"} /\ obs["A"] = "Z" /\ obs["B"] = "X"
    /\ DOMAIN log_data = {"A", "B"}

\* C15 as stated: at every yield no _forward_and_backward call of the batch
\* being started has been made, so the calls of _forward_and_backward equal
\* the calls of update_parameters.
C15_YieldBeforeForward ==
    (Iterating /\ pc = "body") => fbCalls = optCalls

\* C15, amended: iter yields once per batch, after the first
\* _forward_and_backward call of the batch and before its first
\* update_parameters call: at every yield the calls of _forward_and_backward
\* are one more than those of update_parameters, which are step for each
\* batch before this one.
C15_YieldAfterFirstForward ==
    (Iterating /\ pc = "body")
        => /\ fbCalls = optCalls + 1
           /\ optCalls = (nYields - 1) * step
           /\ yielded = step_count

C15_Witness ==
    /\ op = "iter" /\ pc = "body" /\ step = 2 /\ nYields = 2
    /\ fbCalls = 3 /\ optCalls = 2

\* C16: fully consuming iter(n_steps, step) makes exactly n_steps calls of
\* _forward_and_backward and of update_parameters, also when step does not
\* divide n_steps.
C16_ExactlyNStepsAdvances ==
    Drained => (fbCalls = n_steps /\ optCalls = n_steps)


\* C17: the parameters are written only by update_parameters, once per call
\* of the optimizer, and between two yields of iter(n, step) they are written
\* step times.
C17_ParametersWrittenByUpdate ==
    /\ []((Iterating /\ pc = "body") => optCalls = (nYields - 1) * step)
    /\ [][(parameters' # parameters)
            => /\ pc = "upd" \/ (pc = "idle" /\ op' = "update_parameters")
               /\ optCalls' = optCalls + 1
               /\ parameters' = optResult']_vars
    /\ [][(optCalls' = optCalls + 1) => (parameters' # parameters)]_vars

C17_Witness ==
    /\ op = "run" /\ pc = "body" /\ step = 2 /\ nYields = 2
    /\ optCalls = 2 /\ Len(loggers) = 2

\* C18: a sink that raises when called ends the run with its error: the
\* sinks after it are not called for that step, no advance follows, and no
\* sink is flushed.
C18_SinkFailureAborts ==
    /\ []((err = "SinkError")
            => /\ pc = "done" /\ status = "raised" /\ op = "run"
               /\ flushTrace = <<>>
               /\ Len(sinkTrace) < Len(loggers)
               /\ optCalls = (nYields - 1) * step
               /\ fbCalls = optCalls + 1)
    /\ [][(err' = "SinkError")
            => /\ pc = "r_log"
               /\ UNCHANGED <<fields, sinkv, optCalls, fbCalls, nYields>>]_vars

C18_Witness ==
    /\ pc = "done" /\ err = "SinkError" /\ Len(loggers) = 2
    /\ Len(sinkTrace) = 1 /\ nYields = 2

\* The data of a report are built.
Reported == op = "run" /\ pc \in {"r_extra", "r_log", "r_pbar"}

\* C19: the data of every report hold an entry under the loss name exactly
\* when the loss statistics are set, that entry being the statistics of the
\* forward pass made at the current parameters; the other entries are the
\* estimates of the observables at this step.
C19_ReportedData ==
    Reported
        => /\ (loss_stats # NoStats) <=> (LossName \in DOMAIN log_data)
           /\ (loss_stats # NoStats)
                => /\ log_data[LossName] = loss_stats
                   /\ loss_stats = LossOf(parameters)
           /\ (DOMAIN log_data) \ {LossName} = DOMAIN obs
           /\ \A k \in DOMAIN obs : log_data[k] = EstimateStats(obs[k], parameters)

C19_Witness ==
    /\ Reported /\ pc = "r_log" /\ kind = "split" /\ nYields = 2
    /\ DOMAIN obs = {"A", "B"} /\ DOMAIN log_data = {"A", "B", LossName}

\* The final progress update of the run has been made.
FinalUpdateDone ==
    pc = "r_flush" \/ (pc = "done" /\ (status = "ok" \/ err = "FlushError"))

\* C20: every report, and the end of the loop, advance the progress by the
\* step value less the step value of the previous update; the advances of a
\* run add up to the step value less the step value the run started at.
C20_ProgressByDelta ==
    (op = "run")
        => /\ pbar_sum = (IF FinalUpdateDone THEN StepValue ELSE old_step_value)
                            - start_count
           /\ pbar_n = IF pbar_disable THEN 0 ELSE pbar_sum
           /\ (pc \in {"fb", "yield", "upd", "exhausted"})
                => old_step_value = IF nYields > 0 THEN yielded ELSE start_count

C20_Witness ==
    /\ Drained /\ op = "run" /\ ~pbar_disable /\ n_steps = 4 /\ step = 2
    /\ start_count > 0 /\ pbar_n = step_count - start_count

\* What lines 207-212 make of the obs argument the run was called with.
ObsOfCall ==
    IF obs_arg.given THEN obs_arg.v
    ELSE IF registry # <<>> THEN registry ELSE <<>>

\* C21: the observables of a run are settled at the call: the obs argument as
\* given when there is one, else the registry of add_observable when it has an
\* entry, else the empty collection. They are what every report estimates, one
\* estimate per observable and report, and the run changes neither them nor
\* the registry.
C21_ObservablesResolvedOnce ==
    /\ []((op = "run")
            => /\ obs = ObsOfCall
               /\ estCalls = Cardinality(DOMAIN obs)
                                * (IF pc = "body" THEN nYields - 1 ELSE nYields)
               /\ Reported => (DOMAIN log_data) \ {LossName} = DOMAIN obs)
    /\ [][(op = "run" /\ op' = "run") => UNCHANGED <<obs, obs_arg, registry>>]_vars

C21_Witness ==
    /\ Reported /\ nYields = 2 /\ ~obs_arg.given
    /\ DOMAIN registry = {"A"} /\ obs = registry /\ estCalls = 2

\* C22: a run with a visible progress bar, a stride dividing n_iter and the
\* default step value never shows more than n_iter, and shows n_iter when it
\* returns.
C22_ProgressTotal ==
    (op = "run" /\ ~pbar_disable /\ n_steps % step = 0)
        => /\ pbar_n <= n_steps
           /\ Drained => pbar_n = n_steps

\* C23: iter, advance or run ended by the error of a hook leaves the step
\* count and the parameters as the advances completed before it left them.
C23_FailedAdvanceNoEffect ==
    (Iterating /\ pc = "done" /\ err \in {"HookError", "NotImplementedError"})
        => <<step_count, parameters>>
               = AfterAdvances(start_count, start_params, optCalls)

\* C24: a generator closed after its k-th yield stays closed; the optimizer
\* has then made (k - 1) * step updates, all in advances that were completed,
\* the step count is the value of the k-th yield, and one forward and
\* backward pass, that of the batch just begun, has no update.
C24_CancelledIter ==
    (status = "cancelled")
        => /\ pc = "done"
           /\ op = "iter"
           /\ nYields >= 1
           /\ optCalls = (nYields - 1) * step
           /\ fbCalls = optCalls + 1
           /\ parameters = ParamsAfter(optCalls)
           /\ step_count = yielded

C24_Witness ==
    /\ status = "cancelled" /\ pc = "done" /\ nYields = 2 /\ step = 2
    /\ optCalls = 2 /\ step_count = yielded

\* C25: advance(b) called after advance(a) has returned leaves the step
\* count and the parameters that a + b advances from the start of the first
\* call leave, and the generator of the second call yields the step counts
\* that continue the first call's.
C25_AdvanceAdditive ==
    (op = "advance" /\ prev # <<>>)
        => /\ Drained
                => <<step_count, parameters>>
                       = AfterAdvances(prev[2], prev[3], prev[1] + n_steps)
           /\ (pc = "body")
                => yielded
                       = AfterAdvances(prev[2], prev[3], prev[1] + nYields - 1)[1]

C25_Witness ==
    /\ op = "advance" /\ Drained /\ prev # <<>> /\ prev[1] = 2 /\ n_steps = 3
    /\ nYields = 3

\* The batches of iter(n_steps, step): the length of range(0, n_steps, step).
Batches == (n_steps + step - 1) \div step

\* The run was ended by a hook of the optimization.
HookFailed == err \in {"HookError", "NotImplementedError"}

\* What a run has called by the time it is at pc with k yields behind it,
\* and the state a run that has returned is in: nothing here reads the rank
\* of the process.
LockstepAt ==
    /\ (pc \in {"fb", "yield", "body", "r_extra", "r_log", "r_pbar", "upd"})
          => /\ optCalls = gen_b + gen_i
             /\ fbCalls = optCalls + (IF pc = "fb" THEN 0 ELSE 1)
    /\ estCalls = Cardinality(DOMAIN obs)
                     * (IF pc = "body" THEN nYields - 1 ELSE nYields)
    /\ (pc \in {"exhausted", "r_flush"} \/ (pc = "done" /\ ~HookFailed))
          => /\ nYields = Batches
             /\ optCalls = Batches * step
             /\ fbCalls = optCalls
             /\ <<step_count, parameters>>
                    = AfterAdvances(start_count, start_params, optCalls)

C27_ExtraDataHook ==
    (op = "run")
        => /\ (Len(loggers) = 0) => extraCalls = 0
           /\ (Len(loggers) > 0)
                => extraCalls = IF pc \in {"body", "r_extra"}
                                   THEN nYields - 1 ELSE nYields
           /\ (pc = "r_extra")
                => /\ sinkTrace = <<>>
                   /\ (loss_stats # NoStats) => LossName \in DOMAIN log_data
           /\ (pc = "r_log")
                => /\ extraArgs = <<log_data, yielded>>
                   /\ (log_idx = 1) => sinkTrace = <<>>

C27_Witness ==
    /\ op = "run" /\ pc = "r_log" /\ log_idx = 1 /\ nYields = 2
    /\ extraCalls = 2 /\ kind = "split" /\ extraArgs[2] = yielded

====
